---------------------------- MODULE Spec2Model ----------------------------
(***************************************************************************)
(* Adafruit_DotStarMatrix: the pixel-addressing engine.                    *)
(*                                                                         *)
(* A display object is constructed with a geometry and a layout flag byte  *)
(* (both constant afterwards).  drawPixel turns a logical (x, y) into one  *)
(* setPixelColor(index, color) call on the DotStar strip; fillScreen sets  *)
(* every strip element.  Rotation, the remap function and the passthrough  *)
(* colour are the mutable state.                                           *)
(*                                                                         *)
(* The strip (Adafruit_DotStar) and the canvas (Adafruit_GFX) are the two  *)
(* base classes; of them the model keeps what this class reads: WIDTH,     *)
(* HEIGHT, _width, _height, rotation and numPixels().  The calls made on   *)
(* the strip are recorded in the history variable sink.                    *)
(***************************************************************************)
EXTENDS Integers, Sequences, FiniteSets

\* ------------------------------------------------------------- bounds
\* Largest strip (number of elements) explored with every flag byte.
MaxPixels == 8
\* Largest strip explored with every operation in any order.
MaxOpPixels == 4

\* ------------------------------------------------- program constants
DS_MATRIX_BOTTOM == 1
DS_MATRIX_RIGHT == 2
DS_MATRIX_CORNER == 3
DS_MATRIX_AXIS == 4
DS_MATRIX_SEQUENCE == 8
DS_TILE_BOTTOM == 16
DS_TILE_RIGHT == 32
DS_TILE_AXIS == 64
DS_TILE_SEQUENCE == 128
\* The names of the clear bits.
DS_MATRIX_TOP == 0
DS_MATRIX_LEFT == 0
DS_MATRIX_ROWS == 0
DS_MATRIX_COLUMNS == 4
DS_MATRIX_PROGRESSIVE == 0
DS_MATRIX_ZIGZAG == 8
DS_TILE_TOP == 0
DS_TILE_LEFT == 0
DS_TILE_ROWS == 0
DS_TILE_PROGRESSIVE == 0

\* Wrap-around of the unsigned types the code computes in.
U8(n) == n % 256
U16(n) == n % 65536

\* type & mask, for a mask that is a single bit.
HasBit(t, mask) == (t \div mask) % 2 = 1

VARIABLES
  type,           \* const uint8_t type: the layout flag byte
  matrixWidth,    \* const uint8_t: width of one tile (or of the one matrix)
  matrixHeight,   \* const uint8_t: height of one tile
  tilesX,         \* const uint8_t: tiles per row, 0 when built untiled
  tilesY,         \* const uint8_t: tiles per column, 0 when built untiled
  WIDTH,          \* Adafruit_GFX: unrotated canvas width
  HEIGHT,         \* Adafruit_GFX: unrotated canvas height
  numLEDs,        \* Adafruit_DotStar: number of strip elements, numPixels()
  rotation,       \* Adafruit_GFX: 0..3
  _width,         \* Adafruit_GFX: canvas width under the current rotation
  _height,        \* Adafruit_GFX: canvas height under the current rotation
  remapFn,        \* the installed remap function, "NULL" when none
  passThruFlag,   \* boolean passThruFlag
  passThruColor,  \* uint32_t passThruColor
  call,           \* history: the most recent operation and its arguments
  sink,           \* history: the setPixelColor calls that operation made
  remapCalls      \* history: the remap invocations that operation made

config == <<type, matrixWidth, matrixHeight, tilesX, tilesY, WIDTH, HEIGHT,
            numLEDs>>
vars == <<type, matrixWidth, matrixHeight, tilesX, tilesY, WIDTH, HEIGHT,
          numLEDs, rotation, _width, _height, remapFn, passThruFlag,
          passThruColor, call, sink, remapCalls>>

\* The layout members of this display, as one value.
layout ==
  [type |-> type, matrixWidth |-> matrixWidth, matrixHeight |-> matrixHeight,
   tilesX |-> tilesX, tilesY |-> tilesY]

\* ------------------------------------------------------------- inputs
\* 16-bit colour arguments handed to drawPixel and fillScreen.
Colors == {31, 63488}
\* Raw 32-bit values handed to setPassThruColor: 0x808080, and 0x40808080,
\* whose fourth channel no expandColor result has.
RawColors == {8421504, 1082163328}
\* The flag byte is a uint8_t.
Types == 0..255
\* Flag bytes for the runs where every operation is explored: all bits
\* clear, all set, and two that set alternate bits of each level.
SampleTypes == {0, 90, 165, 255}
\* The colour argument and the indeterminate passthrough value of the runs
\* that explore the coordinate mapping alone.
LayoutColors == {31}
LayoutRaws == {8421504}
\* The values of a uint8_t colour channel, and the ones the other two
\* channels take while one channel runs through all of its values.
Levels == 0..255
SampleLevels == {0, 3, 4, 7, 8, 128, 255}
ColorInputs ==
  (Levels \X SampleLevels \X SampleLevels)
    \cup (SampleLevels \X Levels \X SampleLevels)
    \cup (SampleLevels \X SampleLevels \X Levels)
\* Remap functions a caller may install.
RemapFns == {"rowMajor", "colStride"}

\* A value of call: the operation, its coordinates and colour argument (of
\* a drawing operation), its argument and the value it replaced (of a
\* setter).
Op(name, x, y, color, arg, was) ==
  [op |-> name, x |-> x, y |-> y, color |-> color, arg |-> arg, was |-> was]

\* ------------------------------------------------------ colour pipeline
\* The gamma tables live in gamma.h, which is not among the sources.  They
\* are modelled by their described shape: 32 and 64 entries, monotonic,
\* non-linear, 8-bit results, 0 at the bottom and 255 at the top.
gamma5(i) == (i * i * 255) \div (31 * 31)
gamma6(i) == (i * i * 255) \div (63 * 63)

\* Mutant: the channels are packed in blue-green-red order.
expandColorBlueFirst(color) ==
  gamma5(color % 32) * 65536
    + gamma6((color \div 32) % 64) * 256
    + gamma5(color \div 2048)

\* static uint32_t expandColor(uint16_t color)
expandColor(color) ==
  gamma5(color \div 2048) * 65536
    + gamma6((color \div 32) % 64) * 256
    + gamma5(color % 32)

\* Mutant: green is masked with 0xF8, like red, and keeps 5 bits.
ColorGreenFiveBits(r, g, b) ==
  U16((r - (r % 8)) * 256) + U16((g - (g % 8)) * 8) + (b \div 8)

\* uint16_t Color(uint8_t r, uint8_t g, uint8_t b)
Color(r, g, b) ==
  U16((r - (r % 8)) * 256) + U16((g - (g % 4)) * 8) + (b \div 8)

\* Mutant: the passthrough value is gamma-expanded like a colour argument.
EffectiveColorExpandsRaw(color, ptFlag, ptColor) ==
  IF ptFlag THEN expandColor(U16(ptColor)) ELSE expandColor(color)

\* passThruFlag ? passThruColor : expandColor(color)
EffectiveColor(color, ptFlag, ptColor) ==
  IF ptFlag THEN ptColor ELSE expandColor(color)

\* ------------------------------------------------------ remap functions
\* "rowMajor" is the function the documentation of setRemapFunction gives,
\* WIDTH * y + x; "colStride" is a caller's function for a strip laid out in
\* columns of 8 elements.  Both take and return uint16_t.
RemapApply(fn, x, y) ==
  IF fn = "rowMajor" THEN U16(WIDTH * y + x) ELSE U16(8 * x + y)

\* ------------------------------------------------------------ drawPixel
\* Mutant: the bounds check uses the unrotated canvas size.
ClippedUnrotated(x, y) == (x < 0) \/ (y < 0) \/ (x >= WIDTH) \/ (y >= HEIGHT)

\* The bounds check against the rotated canvas.
Clipped(x, y) == (x < 0) \/ (y < 0) \/ (x >= _width) \/ (y >= _height)

\* Mutant: at 90 degrees y is mirrored in the unrotated height.
RotateMirrorsInHeight(rot, x, y) ==
  CASE rot = 1 -> <<HEIGHT - 1 - y, x>>
    [] rot = 2 -> <<WIDTH - 1 - x, HEIGHT - 1 - y>>
    [] rot = 3 -> <<y, HEIGHT - 1 - x>>
    [] OTHER -> <<x, y>>

\* Mutant: the transforms of 90 and 270 degrees are exchanged.
RotateSwapped(rot, x, y) ==
  CASE rot = 3 -> <<WIDTH - 1 - y, x>>
    [] rot = 2 -> <<WIDTH - 1 - x, HEIGHT - 1 - y>>
    [] rot = 1 -> <<y, HEIGHT - 1 - x>>
    [] OTHER -> <<x, y>>

\* switch (rotation): logical (x, y) to unrotated <<x, y>>.
Rotate(rot, x, y) ==
  CASE rot = 1 -> <<WIDTH - 1 - y, x>>
    [] rot = 2 -> <<WIDTH - 1 - x, HEIGHT - 1 - y>>
    [] rot = 3 -> <<y, HEIGHT - 1 - x>>
    [] OTHER -> <<x, y>>

\* Mutant: the tile corner correction flips with tilesX - minor, one too far.
TileResolveOneTooFar(x, y) ==
  IF tilesX # 0
  THEN LET minor0 == U16(x \div matrixWidth)
           major0 == U16(y \div matrixHeight)
           lx == x - (minor0 * matrixWidth)
           ly == y - (major0 * matrixHeight)
           minor1 == IF HasBit(type, DS_TILE_RIGHT)
                     THEN U16(tilesX - minor0) ELSE minor0
           major1 == IF HasBit(type, DS_TILE_BOTTOM)
                     THEN U16(tilesY - major0) ELSE major0
           rows == ~HasBit(type, DS_TILE_AXIS)
           major == IF rows THEN major1 ELSE minor1
           minor == IF rows THEN minor1 ELSE major1
           majorScale == IF rows THEN tilesX ELSE tilesY
           flip == HasBit(type, DS_TILE_SEQUENCE) /\ (major % 2 = 1)
           tile == IF flip
                   THEN U16((major + 1) * majorScale - 1 - minor)
                   ELSE U16(major * majorScale + minor)
       IN  [tileOffset |-> tile * matrixWidth * matrixHeight,
            corner |-> IF flip
                       THEN DS_MATRIX_CORNER - (type % 4)
                       ELSE type % 4,
            x |-> lx, y |-> ly]
  ELSE [tileOffset |-> 0, corner |-> type % 4, x |-> x, y |-> y]

\* Mutant: an untiled display takes its pixel corner from the tile corner
\* bits of the flag byte.
TileResolveOfTileCorner(d, x, y) ==
  IF d.tilesX # 0
  THEN LET minor0 == U16(x \div d.matrixWidth)
           major0 == U16(y \div d.matrixHeight)
           lx == x - (minor0 * d.matrixWidth)
           ly == y - (major0 * d.matrixHeight)
           minor1 == IF HasBit(d.type, DS_TILE_RIGHT)
                     THEN U16(d.tilesX - 1 - minor0) ELSE minor0
           major1 == IF HasBit(d.type, DS_TILE_BOTTOM)
                     THEN U16(d.tilesY - 1 - major0) ELSE major0
           rows == ~HasBit(d.type, DS_TILE_AXIS)
           major == IF rows THEN major1 ELSE minor1
           minor == IF rows THEN minor1 ELSE major1
           majorScale == IF rows THEN d.tilesX ELSE d.tilesY
           flip == HasBit(d.type, DS_TILE_SEQUENCE) /\ (major % 2 = 1)
           tile == IF flip
                   THEN U16((major + 1) * majorScale - 1 - minor)
                   ELSE U16(major * majorScale + minor)
       IN  [tileOffset |-> tile * d.matrixWidth * d.matrixHeight,
            corner |-> IF flip
                       THEN DS_MATRIX_CORNER - (d.type % 4)
                       ELSE d.type % 4,
            x |-> lx, y |-> ly]
  ELSE [tileOffset |-> 0, corner |-> (d.type \div DS_TILE_BOTTOM) % 4,
        x |-> x, y |-> y]

\* Mutant: counting tiles from the right or the bottom, the subtraction of 1
\* is missing.
TileResolveOfOneTooFar(d, x, y) ==
  IF d.tilesX # 0
  THEN LET minor0 == U16(x \div d.matrixWidth)
           major0 == U16(y \div d.matrixHeight)
           lx == x - (minor0 * d.matrixWidth)
           ly == y - (major0 * d.matrixHeight)
           minor1 == IF HasBit(d.type, DS_TILE_RIGHT)
                     THEN U16(d.tilesX - minor0) ELSE minor0
           major1 == IF HasBit(d.type, DS_TILE_BOTTOM)
                     THEN U16(d.tilesY - major0) ELSE major0
           rows == ~HasBit(d.type, DS_TILE_AXIS)
           major == IF rows THEN major1 ELSE minor1
           minor == IF rows THEN minor1 ELSE major1
           majorScale == IF rows THEN d.tilesX ELSE d.tilesY
           flip == HasBit(d.type, DS_TILE_SEQUENCE) /\ (major % 2 = 1)
           tile == IF flip
                   THEN U16((major + 1) * majorScale - 1 - minor)
                   ELSE U16(major * majorScale + minor)
       IN  [tileOffset |-> tile * d.matrixWidth * d.matrixHeight,
            corner |-> IF flip
                       THEN DS_MATRIX_CORNER - (d.type % 4)
                       ELSE d.type % 4,
            x |-> lx, y |-> ly]
  ELSE [tileOffset |-> 0, corner |-> d.type % 4, x |-> x, y |-> y]

\* Mutant: on the odd tile lines of a zigzag tiling the pixel corner is left
\* as configured.
TileResolveOfKeepsCorner(d, x, y) ==
  IF d.tilesX # 0
  THEN LET minor0 == U16(x \div d.matrixWidth)
           major0 == U16(y \div d.matrixHeight)
           lx == x - (minor0 * d.matrixWidth)
           ly == y - (major0 * d.matrixHeight)
           minor1 == IF HasBit(d.type, DS_TILE_RIGHT)
                     THEN U16(d.tilesX - 1 - minor0) ELSE minor0
           major1 == IF HasBit(d.type, DS_TILE_BOTTOM)
                     THEN U16(d.tilesY - 1 - major0) ELSE major0
           rows == ~HasBit(d.type, DS_TILE_AXIS)
           major == IF rows THEN major1 ELSE minor1
           minor == IF rows THEN minor1 ELSE major1
           majorScale == IF rows THEN d.tilesX ELSE d.tilesY
           flip == HasBit(d.type, DS_TILE_SEQUENCE) /\ (major % 2 = 1)
           tile == IF flip
                   THEN U16((major + 1) * majorScale - 1 - minor)
                   ELSE U16(major * majorScale + minor)
       IN  [tileOffset |-> tile * d.matrixWidth * d.matrixHeight,
            corner |-> d.type % 4,
            x |-> lx, y |-> ly]
  ELSE [tileOffset |-> 0, corner |-> d.type % 4, x |-> x, y |-> y]

\* Mutant: a tile is counted as one row of pixels, not as width x height.
TileResolveOfOffsetPerRow(d, x, y) ==
  IF d.tilesX # 0
  THEN LET minor0 == U16(x \div d.matrixWidth)
           major0 == U16(y \div d.matrixHeight)
           lx == x - (minor0 * d.matrixWidth)
           ly == y - (major0 * d.matrixHeight)
           minor1 == IF HasBit(d.type, DS_TILE_RIGHT)
                     THEN U16(d.tilesX - 1 - minor0) ELSE minor0
           major1 == IF HasBit(d.type, DS_TILE_BOTTOM)
                     THEN U16(d.tilesY - 1 - major0) ELSE major0
           rows == ~HasBit(d.type, DS_TILE_AXIS)
           major == IF rows THEN major1 ELSE minor1
           minor == IF rows THEN minor1 ELSE major1
           majorScale == IF rows THEN d.tilesX ELSE d.tilesY
           flip == HasBit(d.type, DS_TILE_SEQUENCE) /\ (major % 2 = 1)
           tile == IF flip
                   THEN U16((major + 1) * majorScale - 1 - minor)
                   ELSE U16(major * majorScale + minor)
       IN  [tileOffset |-> tile * d.matrixWidth,
            corner |-> IF flip
                       THEN DS_MATRIX_CORNER - (d.type % 4)
                       ELSE d.type % 4,
            x |-> lx, y |-> ly]
  ELSE [tileOffset |-> 0, corner |-> d.type % 4, x |-> x, y |-> y]

\* if (tilesX) { ... }, for a display with the members d: the tile the point
\* falls in, the point's coordinates within that tile, and the pixel corner
\* to use there.
TileResolveOf(d, x, y) ==
  IF d.tilesX # 0
  THEN LET minor0 == U16(x \div d.matrixWidth)
           major0 == U16(y \div d.matrixHeight)
           lx == x - (minor0 * d.matrixWidth)
           ly == y - (major0 * d.matrixHeight)
           minor1 == IF HasBit(d.type, DS_TILE_RIGHT)
                     THEN U16(d.tilesX - 1 - minor0) ELSE minor0
           major1 == IF HasBit(d.type, DS_TILE_BOTTOM)
                     THEN U16(d.tilesY - 1 - major0) ELSE major0
           rows == ~HasBit(d.type, DS_TILE_AXIS)
           major == IF rows THEN major1 ELSE minor1
           minor == IF rows THEN minor1 ELSE major1
           majorScale == IF rows THEN d.tilesX ELSE d.tilesY
           flip == HasBit(d.type, DS_TILE_SEQUENCE) /\ (major % 2 = 1)
           tile == IF flip
                   THEN U16((major + 1) * majorScale - 1 - minor)
                   ELSE U16(major * majorScale + minor)
       IN  [tileOffset |-> tile * d.matrixWidth * d.matrixHeight,
            corner |-> IF flip
                       THEN DS_MATRIX_CORNER - (d.type % 4)
                       ELSE d.type % 4,
            x |-> lx, y |-> ly]
  ELSE [tileOffset |-> 0, corner |-> d.type % 4, x |-> x, y |-> y]

\* The tile resolution of this display.
TileResolve(x, y) == TileResolveOf(layout, x, y)

\* Mutant: a zigzag line that runs backwards starts one element too late.
PixelResolveOffByOne(corner, x, y) ==
  LET minor1 == IF HasBit(corner, DS_MATRIX_RIGHT)
                THEN U16(matrixWidth - 1 - x) ELSE U16(x)
      major1 == IF HasBit(corner, DS_MATRIX_BOTTOM)
                THEN U16(matrixHeight - 1 - y) ELSE U16(y)
      rows == ~HasBit(type, DS_MATRIX_AXIS)
      major == IF rows THEN major1 ELSE minor1
      minor == IF rows THEN minor1 ELSE major1
      majorScale == IF rows THEN matrixWidth ELSE matrixHeight
  IN  IF HasBit(type, DS_MATRIX_SEQUENCE) /\ (major % 2 = 1)
      THEN (major + 1) * majorScale - minor
      ELSE major * majorScale + minor

\* Mutant: a zigzag matrix reverses its even lines, not its odd ones.
PixelResolveOfEvenLinesReversed(d, corner, x, y) ==
  LET minor1 == IF HasBit(corner, DS_MATRIX_RIGHT)
                THEN U16(d.matrixWidth - 1 - x) ELSE U16(x)
      major1 == IF HasBit(corner, DS_MATRIX_BOTTOM)
                THEN U16(d.matrixHeight - 1 - y) ELSE U16(y)
      rows == ~HasBit(d.type, DS_MATRIX_AXIS)
      major == IF rows THEN major1 ELSE minor1
      minor == IF rows THEN minor1 ELSE major1
      majorScale == IF rows THEN d.matrixWidth ELSE d.matrixHeight
  IN  IF HasBit(d.type, DS_MATRIX_SEQUENCE) /\ (major % 2 = 0)
      THEN (major + 1) * majorScale - 1 - minor
      ELSE major * majorScale + minor

\* Mutant: a line of a row-major matrix is taken to be matrixHeight long,
\* and a line of a column-major one matrixWidth long.
PixelResolveOfScaleSwapped(d, corner, x, y) ==
  LET minor1 == IF HasBit(corner, DS_MATRIX_RIGHT)
                THEN U16(d.matrixWidth - 1 - x) ELSE U16(x)
      major1 == IF HasBit(corner, DS_MATRIX_BOTTOM)
                THEN U16(d.matrixHeight - 1 - y) ELSE U16(y)
      rows == ~HasBit(d.type, DS_MATRIX_AXIS)
      major == IF rows THEN major1 ELSE minor1
      minor == IF rows THEN minor1 ELSE major1
      majorScale == IF rows THEN d.matrixHeight ELSE d.matrixWidth
  IN  IF HasBit(d.type, DS_MATRIX_SEQUENCE) /\ (major % 2 = 1)
      THEN (major + 1) * majorScale - 1 - minor
      ELSE major * majorScale + minor

\* Mutant: the two corner bits are tested the wrong way round, the bottom
\* bit mirroring x and the right bit mirroring y.
PixelResolveOfCornerBitsSwapped(d, corner, x, y) ==
  LET minor1 == IF HasBit(corner, DS_MATRIX_BOTTOM)
                THEN U16(d.matrixWidth - 1 - x) ELSE U16(x)
      major1 == IF HasBit(corner, DS_MATRIX_RIGHT)
                THEN U16(d.matrixHeight - 1 - y) ELSE U16(y)
      rows == ~HasBit(d.type, DS_MATRIX_AXIS)
      major == IF rows THEN major1 ELSE minor1
      minor == IF rows THEN minor1 ELSE major1
      majorScale == IF rows THEN d.matrixWidth ELSE d.matrixHeight
  IN  IF HasBit(d.type, DS_MATRIX_SEQUENCE) /\ (major % 2 = 1)
      THEN (major + 1) * majorScale - 1 - minor
      ELSE major * majorScale + minor

\* "Find pixel number within tile", for a display with the members d: the
\* offset of (x, y) in its tile.
PixelResolveOf(d, corner, x, y) ==
  LET minor1 == IF HasBit(corner, DS_MATRIX_RIGHT)
                THEN U16(d.matrixWidth - 1 - x) ELSE U16(x)
      major1 == IF HasBit(corner, DS_MATRIX_BOTTOM)
                THEN U16(d.matrixHeight - 1 - y) ELSE U16(y)
      rows == ~HasBit(d.type, DS_MATRIX_AXIS)
      major == IF rows THEN major1 ELSE minor1
      minor == IF rows THEN minor1 ELSE major1
      majorScale == IF rows THEN d.matrixWidth ELSE d.matrixHeight
  IN  IF HasBit(d.type, DS_MATRIX_SEQUENCE) /\ (major % 2 = 1)
      THEN (major + 1) * majorScale - 1 - minor
      ELSE major * majorScale + minor

\* The pixel resolution of this display.
PixelResolve(corner, x, y) == PixelResolveOf(layout, corner, x, y)

\* Mutant: the tile offset is added to the remap function's result too.
ResolveIndexAddsTile(fn, x, y) ==
  LET t == TileResolve(x, y)
  IN  IF fn # "NULL"
      THEN U16(t.tileOffset + RemapApply(fn, x, y))
      ELSE U16(t.tileOffset + PixelResolve(t.corner, t.x, t.y))

\* tileOffset + pixelOffset, for an unrotated (x, y), as setPixelColor's
\* uint16_t argument.
ResolveIndex(fn, x, y) ==
  IF fn # "NULL"
  THEN U16(0 + RemapApply(fn, x, y))
  ELSE LET t == TileResolve(x, y)
       IN  U16(t.tileOffset + PixelResolve(t.corner, t.x, t.y))

\* tileOffset + pixelOffset of the standard resolution, for an unrotated
\* (x, y) on a display with the members d.
StandardIndexOf(d, x, y) ==
  LET t == TileResolveOf(d, x, y)
  IN  U16(t.tileOffset + PixelResolveOf(d, t.corner, t.x, t.y))

\* Mutant: with passthrough active the rotation transform is skipped.
DrawCallsPassSkipsRotation(x, y, color, rot, fn, ptFlag, ptColor) ==
  IF Clipped(x, y)
  THEN << >>
  ELSE LET p == IF ptFlag THEN <<x, y>> ELSE Rotate(rot, x, y)
       IN  << <<ResolveIndex(fn, p[1], p[2]),
                EffectiveColor(color, ptFlag, ptColor)>> >>

\* The setPixelColor calls one drawPixel(x, y, color) makes when the object
\* has rotation rot, remap function fn and passthrough state ptFlag, ptColor.
DrawCalls(x, y, color, rot, fn, ptFlag, ptColor) ==
  IF Clipped(x, y)
  THEN << >>
  ELSE LET p == Rotate(rot, x, y)
       IN  << <<ResolveIndex(fn, p[1], p[2]),
                EffectiveColor(color, ptFlag, ptColor)>> >>

\* The remap invocations that drawPixel makes.
DrawRemapCalls(x, y, rot, fn) ==
  IF Clipped(x, y) \/ fn = "NULL"
  THEN << >>
  ELSE << Rotate(rot, x, y) >>

\* void drawPixel(int16_t x, int16_t y, uint16_t color)
drawPixel(x, y, color) ==
  /\ sink' = DrawCalls(x, y, color, rotation, remapFn, passThruFlag,
                       passThruColor)
  /\ remapCalls' = DrawRemapCalls(x, y, rotation, remapFn)
  /\ call' = Op("drawPixel", x, y, color, 0, 0)
  /\ UNCHANGED <<config, rotation, _width, _height, remapFn, passThruFlag,
                 passThruColor>>

\* ----------------------------------------------------------- fillScreen
\* Mutant: the loop runs from 1 to n.
FillCallsOneBased(color, n, ptFlag, ptColor) ==
  [i \in 1..n |-> <<i, EffectiveColor(color, ptFlag, ptColor)>>]

\* The calls of the loop for (i = 0; i < n; i++) setPixelColor(i, c).
FillCalls(color, n, ptFlag, ptColor) ==
  [i \in 1..n |-> <<i - 1, EffectiveColor(color, ptFlag, ptColor)>>]

\* void fillScreen(uint16_t color)
fillScreen(color) ==
  /\ sink' = FillCalls(color, numLEDs, passThruFlag, passThruColor)
  /\ remapCalls' = << >>
  /\ call' = Op("fillScreen", 0, 0, color, 0, 0)
  /\ UNCHANGED <<config, rotation, _width, _height, remapFn, passThruFlag,
                 passThruColor>>

\* -------------------------------------------------------------- setters
\* void setPassThruColor(uint32_t c)
setPassThruColor(c) ==
  /\ passThruColor' = c
  /\ passThruFlag' = TRUE
  /\ sink' = << >>
  /\ remapCalls' = << >>
  /\ call' = Op("setPassThruColor", 0, 0, 0, c, 0)
  /\ UNCHANGED <<config, rotation, _width, _height, remapFn>>

\* Mutant: leaving passthrough also blanks the strip.
setPassThruColorVoidBlanks ==
  /\ passThruFlag' = FALSE
  /\ sink' = FillCalls(0, numLEDs, FALSE, passThruColor)
  /\ remapCalls' = << >>
  /\ call' = Op("setPassThruColorVoid", 0, 0, 0, 0, 0)
  /\ UNCHANGED <<config, rotation, _width, _height, remapFn, passThruColor>>

\* void setPassThruColor(void)
setPassThruColorVoid ==
  /\ passThruFlag' = FALSE
  /\ sink' = << >>
  /\ remapCalls' = << >>
  /\ call' = Op("setPassThruColorVoid", 0, 0, 0, 0, 0)
  /\ UNCHANGED <<config, rotation, _width, _height, remapFn, passThruColor>>

\* Mutant: a null pointer is ignored, so a remap function cannot be removed.
setRemapFunctionIgnoresNull(fn) ==
  /\ remapFn' = IF fn = "NULL" THEN remapFn ELSE fn
  /\ sink' = << >>
  /\ remapCalls' = << >>
  /\ call' = Op("setRemapFunction", 0, 0, 0, fn, remapFn)
  /\ UNCHANGED <<config, rotation, _width, _height, passThruFlag,
                 passThruColor>>

\* void setRemapFunction(uint16_t (*fn)(uint16_t, uint16_t))
setRemapFunction(fn) ==
  /\ remapFn' = fn
  /\ sink' = << >>
  /\ remapCalls' = << >>
  /\ call' = Op("setRemapFunction", 0, 0, 0, fn, remapFn)
  /\ UNCHANGED <<config, rotation, _width, _height, passThruFlag,
                 passThruColor>>

\* Adafruit_GFX::setRotation(uint8_t r): the canvas of the base class turns,
\* and its current width and height swap at 90 and 270 degrees.
setRotation(r) ==
  /\ rotation' = r % 4
  /\ _width' = IF r % 2 = 0 THEN WIDTH ELSE HEIGHT
  /\ _height' = IF r % 2 = 0 THEN HEIGHT ELSE WIDTH
  /\ sink' = << >>
  /\ remapCalls' = << >>
  /\ call' = Op("setRotation", 0, 0, 0, r, rotation)
  /\ UNCHANGED <<config, remapFn, passThruFlag, passThruColor>>

\* A call of Color(r, g, b): a const method, it makes no call on the strip
\* and changes no member; its arguments, as the 24-bit colour 0xRRGGBB, and
\* its result are recorded.
ColorCall(r, g, b) ==
  /\ call' = Op("Color", 0, 0, Color(r, g, b), r * 65536 + g * 256 + b, 0)
  /\ sink' = << >>
  /\ remapCalls' = << >>
  /\ UNCHANGED <<config, rotation, _width, _height, remapFn, passThruFlag,
                 passThruColor>>

\* --------------------------------------------------------- construction
\* The member initialisers common to the four constructors: a canvas of
\* w x h, a strip of n elements, no remap function, passthrough off.  The
\* passthrough colour has no initialiser: its value, ptc, is indeterminate.
Construct(w, h, n, t, mW, mH, tX, tY, ptc) ==
  /\ type = U8(t)
  /\ matrixWidth = U8(mW)
  /\ matrixHeight = U8(mH)
  /\ tilesX = U8(tX)
  /\ tilesY = U8(tY)
  /\ WIDTH = w
  /\ HEIGHT = h
  /\ _width = w
  /\ _height = h
  /\ rotation = 0
  /\ numLEDs = U16(n)
  /\ remapFn = "NULL"
  /\ passThruFlag = FALSE
  /\ passThruColor = ptc
  /\ call = Op("construct", 0, 0, 0, 0, 0)
  /\ sink = << >>
  /\ remapCalls = << >>

\* Adafruit_DotStarMatrix(int w, int h, uint8_t matrixType, uint8_t ledType)
ConstructSingle(w, h, t, ptc) ==
  Construct(w, h, w * h, t, w, h, 0, 0, ptc)

\* Adafruit_DotStarMatrix(uint8_t mW, uint8_t mH, uint8_t tX, uint8_t tY,
\*                        uint8_t matrixType, uint8_t ledType)
ConstructTiled(mW, mH, tX, tY, t, ptc) ==
  Construct(mW * tX, mH * tY, mW * mH * tX * tY, t, mW, mH, tX, tY, ptc)

\* Every display of at most maxN elements: untiled w x h, tiled tX x tY
\* tiles of w x h, and the tiled constructor called with no tiles at all.
ConstructAny(types, maxN, ptcs) ==
  \E t \in types, ptc \in ptcs, w \in 1..maxN, h \in 1..maxN :
    /\ w * h <= maxN
    /\ \/ ConstructSingle(w, h, t, ptc)
       \/ \E tX \in 0..maxN, tY \in 0..maxN :
            /\ \/ tX = 0 /\ tY = 0
               \/ tX >= 1 /\ tY >= 1 /\ w * h * tX * tY <= maxN
            /\ ConstructTiled(w, h, tX, tY, t, ptc)

\* ------------------------------------------------ the whole state machine
\* A display of at most MaxOpPixels elements with one of SampleTypes as its
\* flag byte, and every operation in any order.
Init == ConstructAny(SampleTypes, MaxOpPixels, RawColors)

Next ==
  \/ \E x \in -1.._width, y \in -1.._height, color \in Colors :
       drawPixel(x, y, color)
  \/ \E color \in Colors : fillScreen(color)
  \/ \E c \in RawColors : setPassThruColor(c)
  \/ setPassThruColorVoid
  \/ \E fn \in RemapFns \cup {"NULL"} : setRemapFunction(fn)
  \/ \E r \in 0..3 : setRotation(r)

Spec == Init /\ [][Next]_vars

\* ------------------------------------------- the coordinate mapping alone
\* A display of at most MaxPixels elements with any flag byte; pixels are
\* drawn inside the canvas with the standard mapping, at 0 degrees.
InitLayout == ConstructAny(Types, MaxPixels, LayoutRaws)

NextLayout ==
  \E x \in 0..(_width - 1), y \in 0..(_height - 1), color \in LayoutColors :
    drawPixel(x, y, color)

SpecLayout == InitLayout /\ [][NextLayout]_vars

\* ------------------------------------------------- the example displays
\* The display of the matrixtest example: one matrix of 8 x 8, first pixel
\* top right, columns, progressive.
MatrixTestDisplay(ptc) ==
  ConstructSingle(8, 8,
                  DS_MATRIX_TOP + DS_MATRIX_RIGHT + DS_MATRIX_COLUMNS
                    + DS_MATRIX_PROGRESSIVE,
                  ptc)

\* The display of the tiletest example: 3 x 1 tiles of 10 x 8, tiles in
\* progressive rows from the top left, pixels in zigzag rows from the top
\* left.
TileTestDisplay(ptc) ==
  ConstructTiled(10, 8, 3, 1,
                 DS_TILE_TOP + DS_TILE_LEFT + DS_TILE_ROWS
                   + DS_TILE_PROGRESSIVE + DS_MATRIX_TOP + DS_MATRIX_LEFT
                   + DS_MATRIX_ROWS + DS_MATRIX_ZIGZAG,
                 ptc)

InitExamples ==
  \E ptc \in LayoutRaws : MatrixTestDisplay(ptc) \/ TileTestDisplay(ptc)

\* Pixels are drawn on and around the canvas; the rotation and the remap
\* function change.
NextExamples ==
  \/ \E x \in -1.._width, y \in -1.._height, color \in LayoutColors :
       drawPixel(x, y, color)
  \/ \E fn \in RemapFns \cup {"NULL"} : setRemapFunction(fn)
  \/ \E r \in 0..3 : setRotation(r)

SpecExamples == InitExamples /\ [][NextExamples]_vars

\* ------------------------------------------------------ the colour path
\* On the matrixtest display a caller computes a colour with Color and draws
\* the first pixel in it, as the example does with its colors[].
InitColor == \E ptc \in LayoutRaws : MatrixTestDisplay(ptc)

NextColor ==
  \/ /\ call.op = "construct"
     /\ \E rgb \in ColorInputs : ColorCall(rgb[1], rgb[2], rgb[3])
  \/ /\ call.op = "Color"
     /\ drawPixel(0, 0, call.color)

SpecColor == InitColor /\ [][NextColor]_vars

\* ------------------------------------------------- the mapping, rotated
\* A display of at most MaxPixels elements with one of SampleTypes as its
\* flag byte; pixels are drawn inside the canvas and the rotation changes.
InitRotation == ConstructAny(SampleTypes, MaxPixels, LayoutRaws)

NextRotation ==
  \/ \E x \in 0..(_width - 1), y \in 0..(_height - 1), color \in LayoutColors :
       drawPixel(x, y, color)
  \/ \E r \in 0..3 : setRotation(r)

SpecRotation == InitRotation /\ [][NextRotation]_vars

\* ------------------------------------------------- a grid of one tile
\* A display built with the tiled constructor and tile counts 1 and 1, of at
\* most MaxPixels elements, with any flag byte; pixels are drawn inside the
\* canvas and the rotation changes.
InitSingleTile ==
  \E t \in Types, ptc \in LayoutRaws, w \in 1..MaxPixels, h \in 1..MaxPixels :
    /\ w * h <= MaxPixels
    /\ ConstructTiled(w, h, 1, 1, t, ptc)

SpecSingleTile == InitSingleTile /\ [][NextRotation]_vars

\* ===================================================== properties checked
\* The number of strip elements as the specification counts them: canvas
\* width W*X times canvas height H*Y (W*H when untiled).
ElementCount == WIDTH * HEIGHT

\* The canvas size under the current rotation, from the rotation alone.
CanvasWidth == IF rotation \in {1, 3} THEN HEIGHT ELSE WIDTH
CanvasHeight == IF rotation \in {1, 3} THEN WIDTH ELSE HEIGHT
Inside(x, y) == x >= 0 /\ y >= 0 /\ x < CanvasWidth /\ y < CanvasHeight

\* The most recent operation was a drawPixel inside the canvas.
DrewInside == call.op = "drawPixel" /\ Inside(call.x, call.y)

\* The rotation transform as the specification tabulates it.
Unrotated(x, y) ==
  IF rotation = 0 THEN <<x, y>>
  ELSE IF rotation = 1 THEN <<WIDTH - 1 - y, x>>
  ELSE IF rotation = 2 THEN <<WIDTH - 1 - x, HEIGHT - 1 - y>>
  ELSE <<y, HEIGHT - 1 - x>>

SinkIndices == {sink[i][1] : i \in 1..Len(sink)}
SinkColors == {sink[i][2] : i \in 1..Len(sink)}

\* The index drawPixel(x, y, .) emits in the current state.
IndexAt(x, y) ==
  DrawCalls(x, y, call.color, rotation, remapFn, passThruFlag,
            passThruColor)[1][1]

\* C1: with no remap function, for every geometry and every flag byte, a
\* draw inside the canvas emits one index, that index is in
\* [0, element_count), and no other coordinate of the canvas resolves to it.
C1_IndexInRangeAndInjective ==
  (DrewInside /\ remapFn = "NULL") =>
    /\ Len(sink) = 1
    /\ sink[1][1] >= 0
    /\ sink[1][1] < ElementCount
    /\ \A x \in 0..(CanvasWidth - 1), y \in 0..(CanvasHeight - 1) :
         (<<x, y>> # <<call.x, call.y>>) => (IndexAt(x, y) # sink[1][1])

\* C1 witness: on a zigzag-tiled display of zigzag tiles, two tiles high, a
\* draw reached the last element of the strip.
C1_Witness ==
  /\ DrewInside
  /\ remapFn = "NULL"
  /\ tilesY >= 2
  /\ matrixWidth >= 2
  /\ matrixHeight >= 2
  /\ HasBit(type, DS_TILE_SEQUENCE)
  /\ HasBit(type, DS_MATRIX_SEQUENCE)
  /\ sink = << <<ElementCount - 1, expandColor(call.color)>> >>

\* C2: a draw outside the current (rotated) canvas makes no setPixelColor
\* call, does not invoke the remap function and changes nothing.
C2_ClippedDrawNoEffect ==
  [][(call'.op = "drawPixel" /\ ~Inside(call'.x, call'.y)) =>
       /\ sink' = << >>
       /\ remapCalls' = << >>
       /\ UNCHANGED <<config, rotation, _width, _height, remapFn,
                      passThruFlag, passThruColor>>]_vars

\* C2 witness: at 90 degrees, with a remap function installed and
\* passthrough active, a draw at an x that lies inside the unrotated canvas
\* but outside the rotated one was clipped.
C2_Witness ==
  /\ call.op = "drawPixel"
  /\ rotation = 1
  /\ remapFn # "NULL"
  /\ passThruFlag
  /\ call.x >= CanvasWidth
  /\ call.x < WIDTH
  /\ call.y >= 0
  /\ call.y < HEIGHT
  /\ sink = << >>
  /\ remapCalls = << >>

\* C3 as claimed: whatever the operations, every index emitted is in
\* [0, element_count).
C3_EveryIndexInRange ==
  \A i \in SinkIndices : i >= 0 /\ i < ElementCount

\* C3 as amended: every index emitted by fillScreen, and by drawPixel while
\* no remap function is installed, is in [0, element_count).
C3_IndexInRangeUnlessRemapped ==
  (call.op = "fillScreen" \/ (call.op = "drawPixel" /\ remapFn = "NULL")) =>
    \A i \in SinkIndices : i >= 0 /\ i < ElementCount

\* C3 witness: after a rotation change and with passthrough active, a draw
\* with no remap function reached the last element of a tiled strip.
C3_Witness ==
  /\ DrewInside
  /\ remapFn = "NULL"
  /\ rotation = 3
  /\ passThruFlag
  /\ tilesX >= 2
  /\ SinkIndices = {ElementCount - 1}

\* C4: with a remap function installed, a draw inside the canvas invokes it
\* once, on the unrotated coordinate, and emits its result as it is: no
\* tile offset, no influence of flags or geometry, no bounds check.
C4_RemapResultVerbatim ==
  (DrewInside /\ remapFn # "NULL") =>
    LET p == Unrotated(call.x, call.y)
    IN  /\ remapCalls = <<p>>
        /\ Len(sink) = 1
        /\ sink[1][1] = RemapApply(remapFn, p[1], p[2])

\* C4 witness: on a tiled display, rotated, the remap function returned an
\* index beyond the strip for a pixel of the second tile and that index was
\* emitted.
C4_Witness ==
  /\ DrewInside
  /\ remapFn = "colStride"
  /\ rotation = 2
  /\ tilesX >= 2
  /\ Unrotated(call.x, call.y)[1] >= matrixWidth
  /\ Len(sink) = 1
  /\ sink[1][1] >= ElementCount

\* C5: passthrough is active exactly from setPassThruColor(c) to the next
\* setPassThruColor(); while it is active every draw and fill emits c as
\* the colour, and otherwise, as right after construction, the expansion of
\* the colour argument.
C5_PassThruColorEmitted ==
  /\ [](/\ (call.op = "setPassThruColor") =>
             (passThruFlag /\ passThruColor = call.arg)
        /\ (call.op \in {"setPassThruColorVoid", "construct"}) =>
             ~passThruFlag
        /\ (call.op \in {"drawPixel", "fillScreen"}) =>
             (SinkColors \subseteq
                {IF passThruFlag THEN passThruColor
                                 ELSE expandColor(call.color)}))
  /\ [][(call'.op \notin {"setPassThruColor", "setPassThruColorVoid"}) =>
          UNCHANGED <<passThruFlag, passThruColor>>]_vars

\* C5 witness: with passthrough active, a draw inside the canvas emitted the
\* raw value, which is not the expansion of its colour argument.
C5_Witness ==
  /\ DrewInside
  /\ passThruFlag
  /\ SinkColors = {passThruColor}
  /\ passThruColor # expandColor(call.color)
  /\ passThruColor >= 16777216

\* C6: the index a draw emits depends neither on the passthrough state nor
\* on the colour argument: the same draw with any other colour argument,
\* passthrough flag and raw value targets the index that was emitted.
C6_IndexIgnoresPassThru ==
  DrewInside =>
    \A c \in Colors, f \in BOOLEAN, r \in RawColors :
      LET d == DrawCalls(call.x, call.y, c, rotation, remapFn, f, r)
      IN  Len(d) = 1 /\ Len(sink) = 1 /\ d[1][1] = sink[1][1]

\* C6 witness: with passthrough active, on a rotated tiled display, a draw
\* emitted an index other than 0.
C6_Witness ==
  /\ DrewInside
  /\ passThruFlag
  /\ rotation = 1
  /\ tilesX >= 2
  /\ Len(sink) = 1
  /\ sink[1][1] > 0

\* C7: fillScreen makes exactly element_count setPixelColor calls, for the
\* indices 0, 1, ... in order, all with the passthrough value if passthrough
\* is active and the expanded colour argument otherwise, whatever the
\* rotation, the flags and the remap function, which it does not invoke.
C7_FillEmitsEveryIndexOnce ==
  (call.op = "fillScreen") =>
    /\ Len(sink) = ElementCount
    /\ \A i \in 1..Len(sink) :
         sink[i] = <<i - 1, IF passThruFlag THEN passThruColor
                                            ELSE expandColor(call.color)>>
    /\ remapCalls = << >>

\* C7 witness: a fill of a 4-element display that is rotated, has a remap
\* function installed and passthrough active.
C7_Witness ==
  /\ call.op = "fillScreen"
  /\ ElementCount = 4
  /\ rotation = 1
  /\ remapFn # "NULL"
  /\ passThruFlag
  /\ Len(sink) = 4
  /\ sink[4] = <<3, passThruColor>>

\* C8: the coordinate handed to the remap function, or to the tile and
\* pixel resolvers, is (x, y) at 0 degrees, (W0-1-y, x) at 90,
\* (W0-1-x, H0-1-y) at 180 and (y, H0-1-x) at 270.
C8_RotationTransform ==
  DrewInside =>
    LET p == Unrotated(call.x, call.y)
    IN  /\ Len(sink) = 1
        /\ (remapFn # "NULL") => (remapCalls = <<p>>)
        /\ (remapFn = "NULL") =>
             (sink[1][1] = ResolveIndex("NULL", p[1], p[2]))

\* C8 witness: at 90 degrees on a canvas higher than wide, a draw at an x
\* beyond the unrotated width handed (W0-1-y, x) to the remap function.
C8_Witness ==
  /\ DrewInside
  /\ rotation = 1
  /\ call.x >= WIDTH
  /\ remapFn # "NULL"
  /\ remapCalls = << <<WIDTH - 1 - call.y, call.x>> >>

Setters ==
  {"setRotation", "setRemapFunction", "setPassThruColor",
   "setPassThruColorVoid"}

\* C9: a rotation change, a remap install or removal and a passthrough set
\* or unset make no setPixelColor call; each puts its new value in place at
\* once, for the operations that follow, and changes nothing else.
C9_SettersEmitNothing ==
  /\ [](/\ (call.op \in Setters) => (sink = << >> /\ remapCalls = << >>)
        /\ (call.op = "setRotation") =>
             (rotation = call.arg % 4 /\ _width = CanvasWidth
                /\ _height = CanvasHeight)
        /\ (call.op = "setRemapFunction") => (remapFn = call.arg)
        /\ (call.op = "setPassThruColor") =>
             (passThruFlag /\ passThruColor = call.arg)
        /\ (call.op = "setPassThruColorVoid") => ~passThruFlag)
  /\ [][/\ (call'.op = "setRotation") =>
             UNCHANGED <<config, remapFn, passThruFlag, passThruColor>>
        /\ (call'.op = "setRemapFunction") =>
             UNCHANGED <<config, rotation, _width, _height, passThruFlag,
                         passThruColor>>
        /\ (call'.op \in {"setPassThruColor", "setPassThruColorVoid"}) =>
             UNCHANGED <<config, rotation, _width, _height, remapFn>>]_vars

\* C9 witness: passthrough was just switched off while a remap function is
\* installed on a rotated display, and nothing was emitted.
C9_Witness ==
  /\ call.op = "setPassThruColorVoid"
  /\ ~passThruFlag
  /\ remapFn # "NULL"
  /\ rotation = 2
  /\ sink = << >>

\* C10: the remap function in force is the argument of the most recent
\* setRemapFunction call and none after construction; a draw consults that
\* function only, and with none in force it emits the index of the default
\* tile and pixel resolution.
C10_LatestRemapOnly ==
  /\ [](/\ (call.op = "construct") => (remapFn = "NULL")
        /\ (call.op = "setRemapFunction") => (remapFn = call.arg)
        /\ DrewInside =>
             LET p == Unrotated(call.x, call.y)
             IN  /\ Len(sink) = 1
                 /\ remapCalls = IF remapFn = "NULL" THEN << >> ELSE <<p>>
                 /\ sink[1][1] = IF remapFn = "NULL"
                                 THEN ResolveIndex("NULL", p[1], p[2])
                                 ELSE RemapApply(remapFn, p[1], p[2]))
  /\ [][(call'.op # "setRemapFunction") => (remapFn' = remapFn)]_vars

\* C10 witness: a remap function that was installed has just been removed.
C10_Witness ==
  /\ call.op = "setRemapFunction"
  /\ call.was \in RemapFns
  /\ call.arg = "NULL"
  /\ remapFn = "NULL"

\* The display is the one of the matrixtest example, at 0 degrees with no
\* remap function, and the most recent operation drew at (x, y).
MatrixTestDrew(x, y) ==
  /\ call.op = "drawPixel"
  /\ call.x = x
  /\ call.y = y
  /\ tilesX = 0
  /\ WIDTH = 8
  /\ HEIGHT = 8
  /\ type = DS_MATRIX_TOP + DS_MATRIX_RIGHT + DS_MATRIX_COLUMNS
              + DS_MATRIX_PROGRESSIVE
  /\ rotation = 0
  /\ remapFn = "NULL"

\* C11 as claimed: on the untiled 8 x 8 display with flags top + right +
\* columns + progressive, at 0 degrees with no remap function, a draw at
\* (0, 0) emits index 0 and a draw at (7, 0) emits index 56.
C11_LeftColumnFirst ==
  /\ MatrixTestDrew(0, 0) => (sink = << <<0, expandColor(call.color)>> >>)
  /\ MatrixTestDrew(7, 0) => (sink = << <<56, expandColor(call.color)>> >>)

\* C11 as amended: on that display a draw at (0, 0) emits index 56 and a
\* draw at (7, 0) emits index 0: the first pixel is the top right one and
\* the columns follow from right to left.
C11_RightColumnFirst ==
  /\ MatrixTestDrew(0, 0) => (sink = << <<56, expandColor(call.color)>> >>)
  /\ MatrixTestDrew(7, 0) => (sink = << <<0, expandColor(call.color)>> >>)

\* C11 witness: the draw at (0, 0) on that display emitted index 56.
C11_Witness ==
  /\ MatrixTestDrew(0, 0)
  /\ SinkIndices = {56}

\* The display is the one of the tiletest example, at 0 degrees with no
\* remap function, and the most recent operation drew at (x, y).
TileTestDrew(x, y) ==
  /\ call.op = "drawPixel"
  /\ call.x = x
  /\ call.y = y
  /\ matrixWidth = 10
  /\ matrixHeight = 8
  /\ tilesX = 3
  /\ tilesY = 1
  /\ type = DS_TILE_TOP + DS_TILE_LEFT + DS_TILE_ROWS + DS_TILE_PROGRESSIVE
              + DS_MATRIX_TOP + DS_MATRIX_LEFT + DS_MATRIX_ROWS
              + DS_MATRIX_ZIGZAG
  /\ rotation = 0
  /\ remapFn = "NULL"

\* C12: on the display of 3 x 1 tiles of 10 x 8, tiles top + left + rows +
\* progressive and pixels top + left + rows + zigzag, at 0 degrees with no
\* remap function, a draw at (10, 0), the top left pixel of the middle
\* tile, has tile offset 80 and pixel offset 0 and emits index 80.
C12_MiddleTileStartsAt80 ==
  TileTestDrew(10, 0) =>
    LET t == TileResolve(10, 0)
    IN  /\ t.tileOffset = 80
        /\ PixelResolve(t.corner, t.x, t.y) = 0
        /\ sink = << <<80, expandColor(call.color)>> >>

\* C12 witness: the draw at (10, 0) on that display emitted index 80.
C12_Witness ==
  /\ TileTestDrew(10, 0)
  /\ SinkIndices = {80}

\* The major tile line of the unrotated point (x, y): the tile row or, for
\* tiles ordered in columns, the tile column, counted from the first tile.
TileMajorLine(x, y) ==
  LET col == x \div matrixWidth
      row == y \div matrixHeight
      fromFirstCol == IF HasBit(type, DS_TILE_RIGHT)
                      THEN tilesX - 1 - col ELSE col
      fromFirstRow == IF HasBit(type, DS_TILE_BOTTOM)
                      THEN tilesY - 1 - row ELSE row
  IN  IF HasBit(type, DS_TILE_AXIS) THEN fromFirstCol ELSE fromFirstRow

\* The tile of (x, y) is addressed as if turned by 180 degrees.
TileTurned(x, y) ==
  HasBit(type, DS_TILE_SEQUENCE) /\ (TileMajorLine(x, y) % 2 = 1)

\* The offset within its tile of the one index emitted.
EmittedPixelOffset == sink[1][1] % (matrixWidth * matrixHeight)

\* C13: on a tiled display, a point at (lx, ly) in a tile on an odd major
\* line of a zigzag tiling gets the pixel offset the configured pixel layout
\* gives to (W-1-lx, H-1-ly); in every other tile it gets the offset the
\* configured layout gives to (lx, ly).
C13_OddTileLineTurned ==
  (DrewInside /\ remapFn = "NULL" /\ tilesX # 0) =>
    LET p == Unrotated(call.x, call.y)
        lx == p[1] % matrixWidth
        ly == p[2] % matrixHeight
    IN  /\ Len(sink) = 1
        /\ EmittedPixelOffset =
             IF TileTurned(p[1], p[2])
             THEN PixelResolve(type % 4, matrixWidth - 1 - lx,
                               matrixHeight - 1 - ly)
             ELSE PixelResolve(type % 4, lx, ly)

\* C13 witness: a draw into a tile of at least 2 x 2 on an odd line of a
\* zigzag tiling emitted an offset other than the one the configured layout
\* gives to the same local point.
C13_Witness ==
  /\ DrewInside
  /\ remapFn = "NULL"
  /\ tilesX # 0
  /\ matrixWidth >= 2
  /\ matrixHeight >= 2
  /\ TileTurned(call.x, call.y)
  /\ Len(sink) = 1
  /\ EmittedPixelOffset # PixelResolve(type % 4, call.x % matrixWidth,
                                       call.y % matrixHeight)

\* C14: on an untiled display with flag byte 0, at 0 degrees with no remap
\* function, a draw at (x, y) inside the canvas emits index y * width + x.
C14_RowMajorIndex ==
  (DrewInside /\ tilesX = 0 /\ type = 0 /\ rotation = 0 /\ remapFn = "NULL")
    => (sink = << <<call.y * WIDTH + call.x, expandColor(call.color)>> >>)

\* C14 witness: on a canvas that is not square, a draw off both the first
\* row and the first column emitted y * width + x.
C14_Witness ==
  /\ DrewInside
  /\ tilesX = 0
  /\ type = 0
  /\ rotation = 0
  /\ remapFn = "NULL"
  /\ WIDTH # HEIGHT
  /\ call.x >= 1
  /\ call.y >= 1
  /\ SinkIndices = {call.y * WIDTH + call.x}

\* The major pixel line of the point (x, y) of an untiled display: the row
\* or, for a column-major matrix, the column, counted from the first pixel.
PixelMajorLine(x, y) ==
  IF HasBit(type, DS_MATRIX_AXIS)
  THEN IF HasBit(type, DS_MATRIX_RIGHT) THEN matrixWidth - 1 - x ELSE x
  ELSE IF HasBit(type, DS_MATRIX_BOTTOM) THEN matrixHeight - 1 - y ELSE y

\* The length of a major pixel line.
PixelLineLength ==
  IF HasBit(type, DS_MATRIX_AXIS) THEN matrixHeight ELSE matrixWidth

\* The point at the mirrored position on the major line of (x, y).
MirroredOnLine(x, y) ==
  IF HasBit(type, DS_MATRIX_AXIS)
  THEN <<x, matrixHeight - 1 - y>>
  ELSE <<matrixWidth - 1 - x, y>>

\* This display with the pixel sequence bit cleared.
ProgressiveTwin == [layout EXCEPT !.type = type - DS_MATRIX_ZIGZAG]

\* C15: on an untiled zigzag display, a pixel on an even major line gets the
\* index it has on the display that differs in the pixel sequence bit alone;
\* a pixel on an odd major line gets an index within its line's range
\* [major * majorScale, (major + 1) * majorScale), the one the progressive
\* display gives to the mirrored position on that line.
C15_ZigzagReversesOddLines ==
  (DrewInside /\ remapFn = "NULL" /\ tilesX = 0
     /\ HasBit(type, DS_MATRIX_SEQUENCE)) =>
    LET p == Unrotated(call.x, call.y)
        major == PixelMajorLine(p[1], p[2])
        q == MirroredOnLine(p[1], p[2])
    IN  /\ Len(sink) = 1
        /\ (major % 2 = 0) =>
             (sink[1][1] = StandardIndexOf(ProgressiveTwin, p[1], p[2]))
        /\ (major % 2 = 1) =>
             /\ sink[1][1] >= major * PixelLineLength
             /\ sink[1][1] < (major + 1) * PixelLineLength
             /\ StandardIndexOf(ProgressiveTwin, p[1], p[2])
                  >= major * PixelLineLength
             /\ StandardIndexOf(ProgressiveTwin, p[1], p[2])
                  < (major + 1) * PixelLineLength
             /\ sink[1][1] = StandardIndexOf(ProgressiveTwin, q[1], q[2])

\* C15 witness: on an untiled zigzag display a draw on an odd major line
\* emitted an index other than the one of the progressive display.
C15_Witness ==
  /\ DrewInside
  /\ remapFn = "NULL"
  /\ tilesX = 0
  /\ HasBit(type, DS_MATRIX_SEQUENCE)
  /\ PixelMajorLine(call.x, call.y) % 2 = 1
  /\ PixelLineLength >= 3
  /\ Len(sink) = 1
  /\ sink[1][1] # StandardIndexOf(ProgressiveTwin, call.x, call.y)

\* The 8-bit channels of a 24-bit colour.
Red(c) == (c \div 65536) % 256
Green(c) == (c \div 256) % 256
Blue(c) == c % 256

\* C16: Color(r, g, b) is (r div 8) * 2048 + (g div 4) * 32 + (b div 8),
\* the top 5, 6 and 5 bits of red, green and blue, truncated, and fits in
\* 16 bits.
C16_ColorPacks565 ==
  (call.op = "Color") =>
    LET r == Red(call.arg)
        g == Green(call.arg)
        b == Blue(call.arg)
    IN  /\ call.color = (r \div 8) * 2048 + (g \div 4) * 32 + (b \div 8)
        /\ call.color >= 0
        /\ call.color < 65536

\* C16 witness: Color(255, 7, 8) returned 0xF821: the low bits of green
\* were dropped, not rounded up.
C16_Witness ==
  /\ call.op = "Color"
  /\ Red(call.arg) = 255
  /\ Green(call.arg) = 7
  /\ Blue(call.arg) = 8
  /\ call.color = 63521

Distance(a, b) == IF a >= b THEN a - b ELSE b - a

\* The colour Color(r, g, b) makes drawPixel emit.
Emitted(r, g, b) == EffectiveColor(Color(r, g, b), FALSE, 0)

\* No channel of colour a is below the same channel of colour b.
NoChannelBelow(a, b) ==
  /\ Red(a) >= Red(b)
  /\ Green(a) >= Green(b)
  /\ Blue(a) >= Blue(b)

\* Raising one channel of (r, g, b) by one step lowers no channel of what
\* is emitted; the steps from every level make up every raise.
MonotonicFrom(r, g, b) ==
  /\ (r < 255) => NoChannelBelow(Emitted(r + 1, g, b), Emitted(r, g, b))
  /\ (g < 255) => NoChannelBelow(Emitted(r, g + 1, b), Emitted(r, g, b))
  /\ (b < 255) => NoChannelBelow(Emitted(r, g, b + 1), Emitted(r, g, b))

Passing ==
  {c \in (-1..(WIDTH + HEIGHT)) \X (-1..(WIDTH + HEIGHT)) :
     ~Clipped(c[1], c[2])}

\* C18: under each rotation the coordinates that pass the bounds check are
\* those of a W0 x H0 canvas (H0 x W0 at 90 and 270 degrees), the rotation
\* step maps them one-to-one onto [0, W0) x [0, H0), and with no remap
\* function the index a draw emits is in [0, element_count) and is the index
\* of no other coordinate.
C18_RotationOneToOne ==
  (DrewInside /\ remapFn = "NULL") =>
    LET image == {Rotate(rotation, c[1], c[2]) : c \in Passing}
    IN  /\ Passing = (0..(CanvasWidth - 1)) \X (0..(CanvasHeight - 1))
        /\ <<call.x, call.y>> \in Passing
        /\ image = (0..(WIDTH - 1)) \X (0..(HEIGHT - 1))
        /\ Cardinality(image) = Cardinality(Passing)
        /\ Len(sink) = 1
        /\ sink[1][1] >= 0
        /\ sink[1][1] < ElementCount
        /\ \A c \in Passing :
             (c # <<call.x, call.y>>) => (IndexAt(c[1], c[2]) # sink[1][1])

\* C18 witness: at 90 degrees on a canvas wider than high, of at least
\* 2 x 2, a draw at a y beyond the unrotated height emitted the index of
\* (W0-1-y, x).
C18_Witness ==
  /\ DrewInside
  /\ remapFn = "NULL"
  /\ rotation = 1
  /\ HEIGHT >= 2
  /\ WIDTH > HEIGHT
  /\ call.y >= HEIGHT
  /\ sink = << <<ResolveIndex("NULL", WIDTH - 1 - call.y, call.x),
                 expandColor(call.color)>> >>

\* The layout members the untiled constructor stores for a display of this
\* canvas size and flag byte.
UntiledTwin == [layout EXCEPT !.tilesX = 0, !.tilesY = 0]

\* C19: a display built with the tiled constructor and tile counts 1 and 1
\* emits, for every flag byte, rotation and coordinate inside the canvas,
\* the index of the display the untiled constructor builds with the same
\* size and flag byte.
C19_SingleTileAsUntiled ==
  (DrewInside /\ remapFn = "NULL" /\ tilesX = 1 /\ tilesY = 1) =>
    LET p == Unrotated(call.x, call.y)
    IN  /\ Len(sink) = 1
        /\ sink[1][1] = StandardIndexOf(UntiledTwin, p[1], p[2])

\* C19 witness: a one-tile display with every tile bit set, not square,
\* turned by 270 degrees, emitted an index other than 0, that of the untiled
\* display.
C19_Witness ==
  /\ DrewInside
  /\ remapFn = "NULL"
  /\ tilesX = 1
  /\ tilesY = 1
  /\ type >= DS_TILE_SEQUENCE + DS_TILE_AXIS + DS_TILE_RIGHT + DS_TILE_BOTTOM
  /\ rotation = 3
  /\ matrixWidth >= 2
  /\ matrixHeight > matrixWidth
  /\ Len(sink) = 1
  /\ sink[1][1] > 0
  /\ sink[1][1] = StandardIndexOf(UntiledTwin, call.y, HEIGHT - 1 - call.x)

\* The four pixel-level bits and the four tile-level bits of a flag byte.
PixelBits(t) == t % 16
TileBits(t) == t \div 16

\* This display with the tile-level bits of its flag byte replaced.
WithTileBits(hi) == [layout EXCEPT !.type = PixelBits(type) + 16 * hi]

\* C20: on a display built with an untiled constructor the tile offset is
\* 0, the pixel corner is the configured one, and the index emitted is the
\* one emitted under every other value of the four tile-level bits.
C20_UntiledIgnoresTileBits ==
  (DrewInside /\ remapFn = "NULL" /\ tilesX = 0) =>
    LET p == Unrotated(call.x, call.y)
        t == TileResolve(p[1], p[2])
    IN  /\ t.tileOffset = 0
        /\ t.corner = type % 4
        /\ Len(sink) = 1
        /\ \A hi \in 0..15 :
             sink[1][1] = StandardIndexOf(WithTileBits(hi), p[1], p[2])

\* C20 witness: an untiled display of at least 2 x 2 with every tile bit
\* set, pixels in zigzag rows from the top right, emitted an index other
\* than 0, the one it emits with every tile bit clear.
C20_Witness ==
  /\ DrewInside
  /\ remapFn = "NULL"
  /\ tilesX = 0
  /\ TileBits(type) = 15
  /\ PixelBits(type) = DS_MATRIX_SEQUENCE + DS_MATRIX_RIGHT
  /\ matrixWidth >= 2
  /\ matrixHeight >= 2
  /\ Len(sink) = 1
  /\ sink[1][1] > 0
  /\ sink[1][1] = StandardIndexOf(WithTileBits(0), call.x, call.y)

=============================================================================
